---- MODULE Spec2Model ----
(***************************************************************************)
(* Verification model of the terminal paint program (paint.c, the          *)
(* linked-list history variant).  Text is modelled as sequences of         *)
(* one-character strings, so that tokenising (strtok), integer parsing     *)
(* (strtol), saving (fprintf) and loading (fgets) are computed rather than *)
(* assumed.                                                                *)
(***************************************************************************)
EXTENDS Integers, Sequences, FiniteSets, TLC

VARIABLES canvas, pen, his, fs, buf, r, running, phase, savedGrid

vars == <<canvas, pen, his, fs, buf, r, running, phase, savedGrid>>

-----------------------------------------------------------------------------
(* Bounds of the model *)

\* canvas dimensions given on the command line (argv[1], argv[2])
Width == 3
Height == 2
\* longest History the model lets a session build
MaxHist == 2
\* the same for the sessions of the save/load round trip
MaxHistRoundTrip == 3

(* Program constants *)
bufsize == 1000

-----------------------------------------------------------------------------
(* Text helpers *)

SP == <<" ">>
NL == <<"\n">>
W_line == <<"l", "i", "n", "e">>
W_rect == <<"r", "e", "c", "t">>
W_circle == <<"c", "i", "r", "c", "l", "e">>
W_chpen == <<"c", "h", "p", "e", "n">>
W_load == <<"l", "o", "a", "d">>
W_save == <<"s", "a", "v", "e">>
W_undo == <<"u", "n", "d", "o">>
W_quit == <<"q", "u", "i", "t">>

\* const char *default_history_file = "history.txt";
default_history_file == <<"h", "i", "s", "t", "o", "r", "y", ".", "t", "x", "t">>

\* the content of a path that does not exist (fopen(..., "r") returns NULL);
\* no file content equals it, a content being a sequence of single characters
NoFile == <<"NoFile">>
\* a NULL char pointer; strtok never returns an empty token
NULL == <<>>

Digits == {"0", "1", "2", "3", "4", "5", "6", "7", "8", "9"}
DigitVal(ch) ==
  CASE ch = "0" -> 0 [] ch = "1" -> 1 [] ch = "2" -> 2 [] ch = "3" -> 3
    [] ch = "4" -> 4 [] ch = "5" -> 5 [] ch = "6" -> 6 [] ch = "7" -> 7
    [] ch = "8" -> 8 [] ch = "9" -> 9

\* isspace() in the C locale
IsSpace(ch) == ch \in {" ", "\t", "\n", "\r", "\f"}

Drop(s, k) == SubSeq(s, k + 1, Len(s))
Take(s, k) == SubSeq(s, 1, k)

\* buf[strlen(buf) - 1] = 0
StripLast(s) == Take(s, Len(s) - 1)

\* length of the leading run of characters of s that satisfy / do not
\* satisfy "is the delimiter"
RECURSIVE SpanDelim(_)
SpanDelim(s) == IF s # <<>> /\ Head(s) = " " THEN 1 + SpanDelim(Tail(s)) ELSE 0
RECURSIVE SpanToken(_)
SpanToken(s) == IF s # <<>> /\ Head(s) # " " THEN 1 + SpanToken(Tail(s)) ELSE 0

\* the successive results of strtok(buf, " "), strtok(NULL, " "), ...
\* up to the first NULL
RECURSIVE strtok(_)
strtok(s) ==
  LET t == Drop(s, SpanDelim(s))
  IN IF t = <<>> THEN <<>>
     ELSE <<Take(t, SpanToken(t))>> \o strtok(Drop(t, SpanToken(t)))

\* the k-th token, or NULL when strtok has run out
Tok(toks, k) == IF k <= Len(toks) THEN toks[k] ELSE NULL

RECURSIVE SpanSpace(_)
SpanSpace(s) == IF s # <<>> /\ IsSpace(Head(s)) THEN 1 + SpanSpace(Tail(s)) ELSE 0
RECURSIVE SpanDigits(_)
SpanDigits(s) == IF s # <<>> /\ Head(s) \in Digits THEN 1 + SpanDigits(Tail(s)) ELSE 0
RECURSIVE DigitsVal(_, _)
DigitsVal(s, acc) == IF s = <<>> THEN acc ELSE DigitsVal(Tail(s), 10 * acc + DigitVal(Head(s)))

\* strtol(s, &e, 10): v is the value, e the unparsed rest (*e != '\0' iff
\* e is not empty).  Without any digit nothing is converted and e = s.
strtol(s) ==
  LET a == Drop(s, SpanSpace(s))
      neg == a # <<>> /\ Head(a) = "-"
      b == IF a # <<>> /\ Head(a) \in {"-", "+"} THEN Tail(a) ELSE a
      k == SpanDigits(b)
  IN IF k = 0 THEN [v |-> 0, e |-> s]
     ELSE [v |-> IF neg THEN 0 - DigitsVal(Take(b, k), 0) ELSE DigitsVal(Take(b, k), 0),
           e |-> Drop(b, k)]

\* (int)v for a long v: value preserving for INT_MIN <= v <= INT_MAX, which
\* holds for every token of the model (at most four digits)
ToInt(v) == v

\* mutant: the quotient is rounded toward minus infinity
CDiv_floor(a, b) == a \div b

\* C integer division, truncated toward zero
CDiv(a, b) ==
  IF (a >= 0) = (b >= 0)
  THEN (IF a >= 0 THEN a ELSE 0 - a) \div (IF b >= 0 THEN b ELSE 0 - b)
  ELSE 0 - ((IF a >= 0 THEN a ELSE 0 - a) \div (IF b >= 0 THEN b ELSE 0 - b))

abs(a) == IF a < 0 THEN 0 - a ELSE a
max(a, b) == IF a > b THEN a ELSE b

-----------------------------------------------------------------------------
(* Canvas *)

\* memset(tmp, ' ', width * height)
BlankCanvas == [x \in 0 .. Width - 1 |-> [y \in 0 .. Height - 1 |-> " "]]

reset_canvas(c) == BlankCanvas

InBounds(x, y) == (x >= 0) /\ (x < Width) /\ (y >= 0) /\ (y < Height)

\* mutant: the store is not guarded and lands where canvas[x] + y points, the
\* rows being laid out one after the other in one block of width * height
Plot_unguarded(c, x, y, p) ==
  LET ix == x * Height + y
  IN IF ix >= 0 /\ ix < Width * Height
     THEN [c EXCEPT ![ix \div Height][ix % Height] = p] ELSE c

\* the guarded store  if (in bounds) c->canvas[x][y] = pen;
Plot(c, x, y, p) == IF InBounds(x, y) THEN [c EXCEPT ![x][y] = p] ELSE c

RECURSIVE LineLoop(_, _, _, _, _, _, _, _)
LineLoop(c, p, x0, y0, x1, y1, n, i) ==
  IF i > n THEN c
  ELSE LineLoop(Plot(c, x0 + CDiv(i * (x1 - x0), n), y0 + CDiv(i * (y1 - y0), n), p),
                p, x0, y0, x1, y1, n, i + 1)

\* mutant: the loop stops one step before the end point
draw_line_openEnd(c, p, x0, y0, x1, y1) ==
  LET n == max(abs(x1 - x0), abs(y1 - y0))
  IN LineLoop(Plot(c, x0, y0, p), p, x0, y0, x1, y1, n - 1, 1)

draw_line(c, p, x0, y0, x1, y1) ==
  LET n == max(abs(x1 - x0), abs(y1 - y0))
  IN LineLoop(Plot(c, x0, y0, p), p, x0, y0, x1, y1, n, 1)

\* mutant: the fourth edge is not drawn
draw_rect_threeEdges(c, p, x0, y0, width, height) ==
  IF width <= 0 \/ height <= 0 THEN c
  ELSE LET x1 == x0 + width - 1
           y1 == y0 + height - 1
           c1 == draw_line(c, p, x0, y0, x1, y0)
           c2 == draw_line(c1, p, x0, y1, x1, y1)
       IN draw_line(c2, p, x0, y0, x0, y1)

draw_rect(c, p, x0, y0, width, height) ==
  IF width <= 0 \/ height <= 0 THEN c
  ELSE LET x1 == x0 + width - 1
           y1 == y0 + height - 1
           c1 == draw_line(c, p, x0, y0, x1, y0)
           c2 == draw_line(c1, p, x0, y1, x1, y1)
           c3 == draw_line(c2, p, x0, y0, x0, y1)
       IN draw_line(c3, p, x1, y0, x1, y1)

\* the distinct offsets <<(int)(r*cos(rad)), (int)(r*sin(rad))>> that the 360
\* one-degree samples produce in IEEE double arithmetic
CircleSamples(rad) ==
  CASE rad = 1 -> {<<1, 0>>, <<0, 0>>, <<0, 1>>, <<-1, 0>>, <<0, -1>>}
    [] rad = 2 -> {<<2, 0>>, <<1, 0>>, <<1, 1>>, <<0, 1>>, <<0, 2>>, <<-1, 1>>,
                   <<-1, 0>>, <<-2, 0>>, <<-1, -1>>, <<0, -1>>, <<0, -2>>, <<1, -1>>}

\* mutant: the circle is always drawn with the glyph '*'
draw_circle_starOnly(c, p, x0, y0, rad) ==
  IF rad <= 0 THEN c
  ELSE [x \in 0 .. Width - 1 |-> [y \in 0 .. Height - 1 |->
          IF <<x - x0, y - y0>> \in CircleSamples(rad) THEN "*" ELSE c[x][y]]]

draw_circle(c, p, x0, y0, rad) ==
  IF rad <= 0 THEN c
  ELSE [x \in 0 .. Width - 1 |-> [y \in 0 .. Height - 1 |->
          IF <<x - x0, y - y0>> \in CircleSamples(rad) THEN p ELSE c[x][y]]]

-----------------------------------------------------------------------------
(* History (singly linked list of Command, modelled as the sequence of the  *)
(* str fields from his->begin to the end of the list)                       *)

\* mutant: the new Command is linked in front of the list
push_command_front(h, str) == <<str>> \o h

\* allocate a Command holding a copy of str and link it after the last one
push_command(h, str) == Append(h, str)

-----------------------------------------------------------------------------
(* Files: fs maps a path to its content, a flat sequence of characters *)

FileNames == {default_history_file}

CanOpenRead(f, name) == name \in DOMAIN f /\ f[name] # NoFile
CanOpenWrite(f, name) == name \in DOMAIN f

\* mutant: only the Command at his->begin is written
WriteAll_firstOnly(h) == IF h = <<>> THEN <<>> ELSE Head(h)

\* fprintf(fp, "%s", p->str) for every p from his->begin on
RECURSIVE WriteAll(_)
WriteAll(h) == IF h = <<>> THEN <<>> ELSE Head(h) \o WriteAll(Tail(h))

RECURSIVE SpanLine(_)
SpanLine(s) ==
  IF s = <<>> THEN 0
  ELSE IF Head(s) = "\n" THEN 1 ELSE 1 + SpanLine(Tail(s))

\* fgets(buf, size, fp) on the unread rest of a file: the characters up to and
\* including the next newline, at most size - 1 of them
fgets(rest, size) == Take(rest, IF SpanLine(rest) < size - 1 THEN SpanLine(rest) ELSE size - 1)

-----------------------------------------------------------------------------
(* Command interpreter.  st is the record of what interpret_command can      *)
(* reach: the canvas cells, the pen, the History list and the file system.   *)

Res(res, st) == [res |-> res, st |-> st]

save_history(filename, st) ==
  LET name == IF filename = NULL THEN default_history_file ELSE filename
  IN IF ~CanOpenWrite(st.fs, name) THEN st
     ELSE [st EXCEPT !.fs = [st.fs EXCEPT ![name] = WriteAll(st.his)]]

\* the integer arguments b[1..k] of a draw verb
AllInts(b) == \A i \in DOMAIN b : strtol(b[i]).e = <<>>
IntArg(b, i) == ToInt(strtol(b[i]).v)

RECURSIVE interpret_command(_, _)
RECURSIVE load_loop(_, _)
RECURSIVE undo_loop(_, _)

\* mutant: a recognized line answered with an error is skipped and the loop
\* goes on with the next line
load_loop_skipsBad(rest, st) ==
  IF rest = <<>> THEN Res("LOAD", st)
  ELSE LET b == fgets(rest, bufsize)
           more == Drop(rest, Len(b))
           cmd == Tok(strtok(b), 1)
       IN IF Len(b) >= bufsize THEN Res("ERRFILE", st)
          ELSE IF cmd # NULL /\ cmd \in {W_line, W_rect, W_circle, W_chpen}
          THEN LET ir == interpret_command(b, st)
               IN IF ir.res \in {"ERRNONINT", "ERRLACKARGS"} THEN load_loop(more, ir.st)
                  ELSE load_loop(more, [ir.st EXCEPT !.his = Append(ir.st.his, b)])
          ELSE load_loop(more, st)

\* mutant: the first line of another kind ends the loop
load_loop_stopsAtOther(rest, st) ==
  IF rest = <<>> THEN Res("LOAD", st)
  ELSE LET b == fgets(rest, bufsize)
           more == Drop(rest, Len(b))
           cmd == Tok(strtok(b), 1)
       IN IF Len(b) >= bufsize THEN Res("ERRFILE", st)
          ELSE IF cmd # NULL /\ cmd \in {W_line, W_rect, W_circle, W_chpen}
          THEN LET ir == interpret_command(b, st)
               IN IF ir.res \in {"ERRNONINT", "ERRLACKARGS"} THEN Res(ir.res, ir.st)
                  ELSE load_loop(more, [ir.st EXCEPT !.his = Append(ir.st.his, b)])
          ELSE Res("LOAD", st)

\* the while (fgets(...) != NULL) loop of load_history on the unread rest
load_loop(rest, st) ==
  IF rest = <<>> THEN Res("LOAD", st)
  ELSE LET b == fgets(rest, bufsize)
           more == Drop(rest, Len(b))
           cmd == Tok(strtok(b), 1)
       IN IF Len(b) >= bufsize THEN Res("ERRFILE", st)
          ELSE IF cmd # NULL /\ cmd \in {W_line, W_rect, W_circle, W_chpen}
          THEN LET ir == interpret_command(b, st)
               IN IF ir.res \in {"ERRNONINT", "ERRLACKARGS"} THEN Res(ir.res, ir.st)
                  ELSE load_loop(more, [ir.st EXCEPT !.his = Append(ir.st.his, b)])
          ELSE load_loop(more, st)

\* mutant: the canvas is reset before the open is attempted
load_history_resetFirst(filename, st) ==
  LET name == IF filename = NULL THEN default_history_file ELSE filename
      st0 == [st EXCEPT !.canvas = reset_canvas(st.canvas)]
  IN IF ~CanOpenRead(st.fs, name) THEN Res("ERRFILE", st0)
     ELSE load_loop(st.fs[name], st0)

load_history(filename, st) ==
  LET name == IF filename = NULL THEN default_history_file ELSE filename
  IN IF ~CanOpenRead(st.fs, name) THEN Res("ERRFILE", st)
     ELSE load_loop(st.fs[name], [st EXCEPT !.canvas = reset_canvas(st.canvas)])

\* the scan of undo: every Command that is not the last one is interpreted
undo_loop(h, st) ==
  IF Len(h) <= 1 THEN st
  ELSE undo_loop(Tail(h), interpret_command(Head(h), st).st)

\* mutant: the scan also interprets the last Command before it is unlinked
undo_replaysLast(st) ==
  LET st0 == [st EXCEPT !.canvas = reset_canvas(st.canvas)]
  IN IF st.his = <<>> THEN Res("NOCOMMAND", st0)
     ELSE Res("UNDO", [undo_loop(Append(st.his, <<>>), st0)
                         EXCEPT !.his = Take(st.his, Len(st.his) - 1)])

\* mutant: undo does not blank the canvas before it replays
undo_noReset(st) ==
  IF st.his = <<>> THEN Res("NOCOMMAND", st)
  ELSE Res("UNDO", [undo_loop(st.his, st) EXCEPT !.his = Take(st.his, Len(st.his) - 1)])

\* mutant: no test for an empty list (as in the array variant)
undo_noEmptyCheck(st) ==
  LET st0 == [st EXCEPT !.canvas = reset_canvas(st.canvas)]
  IN Res("UNDO", [undo_loop(st.his, st0) EXCEPT !.his = Take(st.his, Len(st.his) - 1)])

undo(st) ==
  LET st0 == [st EXCEPT !.canvas = reset_canvas(st.canvas)]
  IN IF st.his = <<>> THEN Res("NOCOMMAND", st0)
     ELSE Res("UNDO", [undo_loop(st.his, st0) EXCEPT !.his = Take(st.his, Len(st.his) - 1)])

\* mutant: line tests its tokens for integers before it counts them
interpret_command_intsFirst(command, st) ==
  LET toks == strtok(StripLast(command))
      s == Tok(toks, 1)
      args(k) == SubSeq(toks, 2, k + 1)
  IN IF s = NULL THEN Res("UNKNOWN", st)
     ELSE IF s = W_chpen THEN
       LET p == Tok(toks, 2)
       IN IF p = NULL THEN Res("ERRLACKARGS", st)
          ELSE IF p[1] \in {" ", "\t", "\n"} THEN Res("ERRLACKARGS", st)
          ELSE IF Len(p) > 1 THEN Res("ERRLACKARGS", st)
          ELSE IF Tok(toks, 3) # NULL THEN Res("UNKNOWN", st)
          ELSE Res("CHPEN", [st EXCEPT !.pen = p[1]])
     ELSE IF s = W_load THEN
       IF Tok(toks, 3) # NULL THEN Res("UNKNOWN", st)
       ELSE load_history(Tok(toks, 2), st)
     ELSE IF s = W_rect THEN
       IF Len(toks) < 5 THEN Res("ERRLACKARGS", st)
       ELSE IF ~AllInts(args(4)) THEN Res("ERRNONINT", st)
       ELSE Res("RECT", [st EXCEPT !.canvas =
              draw_rect(st.canvas, st.pen, IntArg(args(4), 1), IntArg(args(4), 2),
                        IntArg(args(4), 3), IntArg(args(4), 4))])
     ELSE IF s = W_circle THEN
       IF Len(toks) < 4 THEN Res("ERRLACKARGS", st)
       ELSE IF ~AllInts(args(3)) THEN Res("ERRNONINT", st)
       ELSE Res("CIRCLE", [st EXCEPT !.canvas =
              draw_circle(st.canvas, st.pen, IntArg(args(3), 1), IntArg(args(3), 2),
                          IntArg(args(3), 3))])
     ELSE IF s = W_line THEN
       IF ~AllInts(Tail(toks)) THEN Res("ERRNONINT", st)
       ELSE IF Len(toks) < 5 THEN Res("ERRLACKARGS", st)
       ELSE Res("LINE", [st EXCEPT !.canvas =
              draw_line(st.canvas, st.pen, IntArg(args(4), 1), IntArg(args(4), 2),
                        IntArg(args(4), 3), IntArg(args(4), 4))])
     ELSE IF s = W_save THEN Res("SAVE", save_history(Tok(toks, 2), st))
     ELSE IF s = W_undo THEN undo(st)
     ELSE IF s = W_quit THEN Res("EXIT", st)
     ELSE Res("UNKNOWN", st)

\* mutant: chpen takes the first character of a longer token
interpret_command_longGlyph(command, st) ==
  LET toks == strtok(StripLast(command))
      s == Tok(toks, 1)
      args(k) == SubSeq(toks, 2, k + 1)
  IN IF s = NULL THEN Res("UNKNOWN", st)
     ELSE IF s = W_chpen THEN
       LET p == Tok(toks, 2)
       IN IF p = NULL THEN Res("ERRLACKARGS", st)
          ELSE IF p[1] \in {" ", "\t", "\n"} THEN Res("ERRLACKARGS", st)
          ELSE IF Tok(toks, 3) # NULL THEN Res("UNKNOWN", st)
          ELSE Res("CHPEN", [st EXCEPT !.pen = p[1]])
     ELSE IF s = W_load THEN
       IF Tok(toks, 3) # NULL THEN Res("UNKNOWN", st)
       ELSE load_history(Tok(toks, 2), st)
     ELSE IF s = W_rect THEN
       IF Len(toks) < 5 THEN Res("ERRLACKARGS", st)
       ELSE IF ~AllInts(args(4)) THEN Res("ERRNONINT", st)
       ELSE Res("RECT", [st EXCEPT !.canvas =
              draw_rect(st.canvas, st.pen, IntArg(args(4), 1), IntArg(args(4), 2),
                        IntArg(args(4), 3), IntArg(args(4), 4))])
     ELSE IF s = W_circle THEN
       IF Len(toks) < 4 THEN Res("ERRLACKARGS", st)
       ELSE IF ~AllInts(args(3)) THEN Res("ERRNONINT", st)
       ELSE Res("CIRCLE", [st EXCEPT !.canvas =
              draw_circle(st.canvas, st.pen, IntArg(args(3), 1), IntArg(args(3), 2),
                          IntArg(args(3), 3))])
     ELSE IF s = W_line THEN
       IF Len(toks) < 5 THEN Res("ERRLACKARGS", st)
       ELSE IF ~AllInts(args(4)) THEN Res("ERRNONINT", st)
       ELSE Res("LINE", [st EXCEPT !.canvas =
              draw_line(st.canvas, st.pen, IntArg(args(4), 1), IntArg(args(4), 2),
                        IntArg(args(4), 3), IntArg(args(4), 4))])
     ELSE IF s = W_save THEN Res("SAVE", save_history(Tok(toks, 2), st))
     ELSE IF s = W_undo THEN undo(st)
     ELSE IF s = W_quit THEN Res("EXIT", st)
     ELSE Res("UNKNOWN", st)

interpret_command(command, st) ==
  LET toks == strtok(StripLast(command))
      s == Tok(toks, 1)
      args(k) == SubSeq(toks, 2, k + 1)
  IN IF s = NULL THEN Res("UNKNOWN", st)
     ELSE IF s = W_chpen THEN
       LET p == Tok(toks, 2)
       IN IF p = NULL THEN Res("ERRLACKARGS", st)
          ELSE IF p[1] \in {" ", "\t", "\n"} THEN Res("ERRLACKARGS", st)
          ELSE IF Len(p) > 1 THEN Res("ERRLACKARGS", st)
          ELSE IF Tok(toks, 3) # NULL THEN Res("UNKNOWN", st)
          ELSE Res("CHPEN", [st EXCEPT !.pen = p[1]])
     ELSE IF s = W_load THEN
       IF Tok(toks, 3) # NULL THEN Res("UNKNOWN", st)
       ELSE load_history(Tok(toks, 2), st)
     ELSE IF s = W_rect THEN
       IF Len(toks) < 5 THEN Res("ERRLACKARGS", st)
       ELSE IF ~AllInts(args(4)) THEN Res("ERRNONINT", st)
       ELSE Res("RECT", [st EXCEPT !.canvas =
              draw_rect(st.canvas, st.pen, IntArg(args(4), 1), IntArg(args(4), 2),
                        IntArg(args(4), 3), IntArg(args(4), 4))])
     ELSE IF s = W_circle THEN
       IF Len(toks) < 4 THEN Res("ERRLACKARGS", st)
       ELSE IF ~AllInts(args(3)) THEN Res("ERRNONINT", st)
       ELSE Res("CIRCLE", [st EXCEPT !.canvas =
              draw_circle(st.canvas, st.pen, IntArg(args(3), 1), IntArg(args(3), 2),
                          IntArg(args(3), 3))])
     ELSE IF s = W_line THEN
       IF Len(toks) < 5 THEN Res("ERRLACKARGS", st)
       ELSE IF ~AllInts(args(4)) THEN Res("ERRNONINT", st)
       ELSE Res("LINE", [st EXCEPT !.canvas =
              draw_line(st.canvas, st.pen, IntArg(args(4), 1), IntArg(args(4), 2),
                        IntArg(args(4), 3), IntArg(args(4), 4))])
     ELSE IF s = W_save THEN Res("SAVE", save_history(Tok(toks, 2), st))
     ELSE IF s = W_undo THEN undo(st)
     ELSE IF s = W_quit THEN Res("EXIT", st)
     ELSE Res("UNKNOWN", st)

-----------------------------------------------------------------------------
(* Input lines, as fgets(buf, bufsize, stdin) delivers them *)

I_line == W_line \o SP \o <<"0">> \o SP \o <<"0">> \o SP \o <<"2">> \o SP \o <<"1">> \o NL
I_rect == W_rect \o SP \o <<"0">> \o SP \o <<"0">> \o SP \o <<"2">> \o SP \o <<"2">> \o NL
I_circle == W_circle \o SP \o <<"1">> \o SP \o <<"1">> \o SP \o <<"1">> \o NL
I_chpen == W_chpen \o SP \o <<"#">> \o NL
I_undo == W_undo \o NL
I_save == W_save \o NL
I_load == W_load \o NL
I_quit == W_quit \o NL
I_nonint == W_line \o SP \o <<"1">> \o SP \o <<"2">> \o SP \o <<"3", "a", "b", "c">> \o SP \o <<"4">> \o NL

InputLines ==
  {I_line, I_circle, I_chpen, I_undo, I_save, I_load, I_quit, I_nonint}

\* the lines of the sessions of the save/load round trip
RoundTripLines == {I_line, I_rect, I_circle, I_chpen, I_save, I_load}

\* sprintf(buf, "chpen %c\n", pen) with pen = '*'
InitialPenCommand == W_chpen \o SP \o <<"*">> \o NL

\* history files that may already lie in the working directory at start
F_abort == I_line \o I_nonint \o I_chpen
InitialFiles == {NoFile, F_abort}

MutatingResults == {"LINE", "RECT", "CIRCLE", "CHPEN"}

-----------------------------------------------------------------------------
(* The session: main *)

\* what interpret_command is handed
Cur == [canvas |-> canvas, pen |-> pen, his |-> his, fs |-> fs]

\* main up to the first prompt
StartSession ==
  /\ canvas' = BlankCanvas
  /\ pen' = "*"
  /\ buf' = InitialPenCommand
  /\ his' = push_command(<<>>, InitialPenCommand)
  /\ r' = "NONE"
  /\ running' = TRUE

InitSession ==
  /\ canvas = BlankCanvas
  /\ pen = "*"
  /\ buf = InitialPenCommand
  /\ his = push_command(<<>>, InitialPenCommand)
  /\ r = "NONE"
  /\ running = TRUE
  /\ savedGrid = <<>>

Init ==
  /\ InitSession
  /\ phase = "untracked"
  /\ \E content \in InitialFiles : fs = [name \in FileNames |-> content]

\* Bookkeeping for the round-trip property (kept only by SpecRoundTrip): what
\* the session has done so far, and the grid at the moment the default file
\* was last written by a session that had only accepted drawing commands.
NextPhase(ph, res) ==
  IF ph = "untracked" THEN ph
  ELSE IF ph \in {"fresh", "drawing"} /\ res \in MutatingResults THEN "drawing"
  ELSE IF ph \in {"fresh", "drawing"} /\ res = "SAVE" THEN ph
  ELSE IF ph = "fresh" /\ res = "LOAD" THEN "loaded"
  ELSE "mixed"

NextSavedGrid(ph, res, written, c, saved) ==
  IF ph = "untracked" \/ res # "SAVE" \/ ~written THEN saved
  ELSE IF ph \in {"fresh", "drawing"} THEN <<c>> ELSE <<>>

\* mutant: a file error ends the loop as quit does
Command_stopsOnFileError(l, cap) ==
  /\ running
  /\ LET ir == interpret_command(l, Cur)
         logged == IF ir.res \in MutatingResults
                   THEN push_command(ir.st.his, l) ELSE ir.st.his
     IN /\ Len(logged) <= cap
        /\ buf' = l
        /\ r' = ir.res
        /\ canvas' = ir.st.canvas
        /\ pen' = ir.st.pen
        /\ fs' = ir.st.fs
        /\ his' = logged
        /\ running' = (ir.res \notin {"EXIT", "ERRFILE"})
        /\ phase' = NextPhase(phase, ir.res)
        /\ savedGrid' = NextSavedGrid(phase, ir.res, CanOpenWrite(fs, default_history_file),
                                      canvas, savedGrid)

\* mutant: an accepted line is logged twice
Command_logsTwice(l, cap) ==
  /\ running
  /\ LET ir == interpret_command(l, Cur)
         logged == IF ir.res \in MutatingResults
                   THEN push_command(push_command(ir.st.his, l), l) ELSE ir.st.his
     IN /\ Len(logged) <= cap
        /\ buf' = l
        /\ r' = ir.res
        /\ canvas' = ir.st.canvas
        /\ pen' = ir.st.pen
        /\ fs' = ir.st.fs
        /\ his' = logged
        /\ running' = (ir.res # "EXIT")
        /\ phase' = NextPhase(phase, ir.res)
        /\ savedGrid' = NextSavedGrid(phase, ir.res, CanOpenWrite(fs, default_history_file),
                                      canvas, savedGrid)

\* mutant: a line answered with ERRNONINT is logged as well
Command_logsRejected(l, cap) ==
  /\ running
  /\ LET ir == interpret_command(l, Cur)
         logged == IF ir.res \in MutatingResults \cup {"ERRNONINT"}
                   THEN push_command(ir.st.his, l) ELSE ir.st.his
     IN /\ Len(logged) <= cap
        /\ buf' = l
        /\ r' = ir.res
        /\ canvas' = ir.st.canvas
        /\ pen' = ir.st.pen
        /\ fs' = ir.st.fs
        /\ his' = logged
        /\ running' = (ir.res # "EXIT")
        /\ phase' = NextPhase(phase, ir.res)
        /\ savedGrid' = NextSavedGrid(phase, ir.res, CanOpenWrite(fs, default_history_file),
                                      canvas, savedGrid)

\* one iteration of the main loop on the input line l; cap bounds the History
Command(l, cap) ==
  /\ running
  /\ LET ir == interpret_command(l, Cur)
         logged == IF ir.res \in MutatingResults
                   THEN push_command(ir.st.his, l) ELSE ir.st.his
     IN /\ Len(logged) <= cap
        /\ buf' = l
        /\ r' = ir.res
        /\ canvas' = ir.st.canvas
        /\ pen' = ir.st.pen
        /\ fs' = ir.st.fs
        /\ his' = logged
        /\ running' = (ir.res # "EXIT")
        /\ phase' = NextPhase(phase, ir.res)
        /\ savedGrid' = NextSavedGrid(phase, ir.res, CanOpenWrite(fs, default_history_file),
                                      canvas, savedGrid)

\* fgets returns NULL: end of input
EndOfInput ==
  /\ running
  /\ running' = FALSE
  /\ UNCHANGED <<canvas, pen, his, fs, buf, r, phase, savedGrid>>

\* the program is started again in the same directory with the same size
NewSession ==
  /\ ~running
  /\ StartSession
  /\ phase' = IF phase = "untracked" THEN phase ELSE "fresh"
  /\ UNCHANGED <<fs, savedGrid>>

Next ==
  \/ \E l \in InputLines : Command(l, MaxHist)
  \/ EndOfInput
  \/ NewSession

Spec == Init /\ [][Next]_vars

\* Sessions that draw and save, and sessions that load
InitRoundTrip ==
  /\ InitSession
  /\ phase = "fresh"
  /\ fs = [name \in FileNames |-> NoFile]

NextRoundTrip ==
  \/ \E l \in RoundTripLines : Command(l, MaxHistRoundTrip)
  \/ EndOfInput
  \/ NewSession

SpecRoundTrip == InitRoundTrip /\ [][NextRoundTrip]_vars


-----------------------------------------------------------------------------
(* Vocabulary of the properties *)

\* the glyphs a session of the model can hold as its pen
Pens == {"*", "#"}

\* the state after the entries of h were handed to the interpreter in order
RECURSIVE ApplyAll(_, _)
ApplyAll(h, st) ==
  IF h = <<>> THEN st ELSE ApplyAll(Tail(h), interpret_command(Head(h), st).st)

\* the grid that replaying h on a reset canvas gives when the pen is p
Replayed(h, p) ==
  ApplyAll(h, [canvas |-> BlankCanvas, pen |-> p, his |-> h, fs |-> fs]).canvas

\* the step just taken was one turn of the main loop that did not end it
Turn == running /\ running'

\* the session state after the step just taken
Post == [canvas |-> canvas', pen |-> pen', his |-> his', fs |-> fs']

Front(h) == Take(h, Len(h) - 1)

-----------------------------------------------------------------------------
(* C1 *)

\* C1: replay determinism: in every reachable state, blanking all cells and
\* applying the History entries in order through the interpreter gives the
\* current grid, cell by cell and glyph by glyph.
C1_ReplayReproducesCanvas == Replayed(his, pen) = canvas

-----------------------------------------------------------------------------
(* C2 *)

-----------------------------------------------------------------------------
(* C3 *)

\* C3: undo is the inverse of the last accepted mutating command: an accepted
\* live line/rect/circle/chpen immediately followed by undo leaves the grid
\* as it was before that command.
C3_UndoInvertsLastCommand ==
  [][(Turn /\ r' \in MutatingResults) =>
       interpret_command(I_undo, Post).st.canvas = canvas]_vars

-----------------------------------------------------------------------------
(* C4 *)

\* C4: undo on an empty History returns NOCOMMAND and mutates nothing: History
\* stays empty, the pen is unchanged and every cell is as before (blank).
C4_UndoOnEmpty ==
  [][(Turn /\ buf' = I_undo /\ his = <<>>) =>
       /\ r' = "NOCOMMAND"
       /\ his' = <<>>
       /\ pen' = pen
       /\ canvas' = canvas
       /\ canvas' = BlankCanvas]_vars

\* an undo was answered NOCOMMAND
C4_Witness == running /\ buf = I_undo /\ r = "NOCOMMAND" /\ his = <<>>

-----------------------------------------------------------------------------
(* C5 *)

\* a turn of the main loop whose line has load as its first token
IsLoadTurn == Turn /\ Tok(strtok(StripLast(buf')), 1) = W_load

IsPrefix(a, b) == Len(a) <= Len(b) /\ Take(b, Len(a)) = a

\* C5 as stated: at session start, before any command, History is empty.
C5_EmptyAtStart == (r = "NONE") => (his = <<>>)

\* C5 as amended: at session start History holds exactly the initial pen
\* command that main logs; afterwards entries are added only at the end, by an
\* accepted live mutating command (its own text) or by load, and leave only
\* through undo, which drops the last one.
C5_HistoryDiscipline ==
  /\ (r = "NONE") => (his = <<InitialPenCommand>>)
  /\ [][/\ (r' = "NONE") => (his' = <<InitialPenCommand>>)
        /\ \/ his' = his
           \/ r' = "NONE"
           \/ Turn /\ r' \in MutatingResults /\ his' = Append(his, buf')
           \/ IsLoadTurn /\ IsPrefix(his, his') /\ r' \notin MutatingResults
           \/ Turn /\ r' = "UNDO" /\ his' = Front(his)]_vars

\* History grew by a live command, with the initial pen command still first
C5_Witness ==
  /\ r \in MutatingResults
  /\ Len(his) = 2
  /\ his[1] = InitialPenCommand
  /\ his[2] = buf

-----------------------------------------------------------------------------
(* C6 *)

-----------------------------------------------------------------------------
(* C7 *)

\* C7: replay is a function of the command sequence and the canvas size only:
\* replaying the History on a reset canvas gives the same grid whatever pen
\* the session held before the reset.
C7_ReplayIgnoresPen == \A p \in Pens : Replayed(his, p) = Replayed(his, pen)

-----------------------------------------------------------------------------
(* C8 *)

\* the lines of a file, as successive calls of fgets deliver them
RECURSIVE FileLines(_)
FileLines(content) ==
  IF content = <<>> THEN <<>>
  ELSE <<fgets(content, bufsize)>> \o FileLines(Drop(content, Len(fgets(content, bufsize))))

\* the first token of the line is one of the four mutating verbs
Recognized(line) == Tok(strtok(line), 1) \in {W_line, W_rect, W_circle, W_chpen}

\* C8: after load returns LOAD, History consists of exactly the file's
\* recognized lines in file order, whatever it held before, and the canvas
\* equals a blank grid on which exactly those lines were applied.
C8_LoadRebuildsHistory ==
  [][(Turn /\ buf' = I_load /\ r' = "LOAD") =>
       LET kept == SelectSeq(FileLines(fs[default_history_file]), Recognized)
       IN /\ his' = kept
          /\ canvas' = Replayed(kept, pen)]_vars

-----------------------------------------------------------------------------
(* C9 *)

-----------------------------------------------------------------------------
(* C10 *)

\* a recognized line that the interpreter answers with one of the two errors
\* that stop a load (the answer depends on the text of the line only)
Aborts(line) ==
  Recognized(line) /\ interpret_command(line, Cur).res \in {"ERRNONINT", "ERRLACKARGS"}

HasAbort(lines) == \E k \in 1 .. Len(lines) : Aborts(lines[k])

FirstAbort(lines) ==
  CHOOSE k \in 1 .. Len(lines) : Aborts(lines[k]) /\ \A j \in 1 .. k - 1 : ~Aborts(lines[j])

\* C10: when a recognized line of the loaded file is answered ERRNONINT or
\* ERRLACKARGS, load stops there and returns that error: only the recognized
\* lines before it are applied to the reset canvas and appended to History;
\* the failing line and every later line are neither applied nor appended.
C10_LoadStopsAtError ==
  [][(Turn /\ buf' = I_load /\ CanOpenRead(fs, default_history_file)
        /\ HasAbort(FileLines(fs[default_history_file]))) =>
       LET lines == FileLines(fs[default_history_file])
           k == FirstAbort(lines)
           kept == SelectSeq(Take(lines, k - 1), Recognized)
           st0 == [canvas |-> BlankCanvas, pen |-> pen, his |-> his, fs |-> fs]
       IN /\ r' = interpret_command(lines[k], Cur).res
          /\ his' = his \o kept
          /\ canvas' = ApplyAll(kept, st0).canvas
          /\ pen' = ApplyAll(kept, st0).pen]_vars

\* a load was stopped by a bad line after it had applied an earlier line, and
\* the pen command that follows the bad line in the file was not applied
C10_Witness ==
  /\ running /\ buf = I_load /\ r = "ERRNONINT"
  /\ fs[default_history_file] = F_abort
  /\ his # <<>> /\ his[Len(his)] = I_line
  /\ canvas # BlankCanvas
  /\ pen = "*"

-----------------------------------------------------------------------------
(* Sessions over history files written by hand *)

\* longest History of these sessions
MaxHistFiles == 3

I_garbage == <<"f", "o", "o">> \o NL
I_chpenExtra == W_chpen \o SP \o <<"a">> \o SP \o <<"b">> \o NL
\* save to a path that fopen(.., "w") refuses: the root directory
I_saveRoot == W_save \o SP \o <<"/">> \o NL

\* a file whose drawing lines stand between lines of other kinds
F_skip == I_undo \o I_line \o I_quit \o I_garbage \o I_load \o I_save
          \o W_chpen \o NL \o I_chpen
\* a file with a chpen line that the interpreter answers with UNKNOWN
F_unknown == I_chpenExtra \o I_line
\* a file whose only line, line 0 0 2 11, is not ended by a newline
F_unterminated == W_line \o SP \o <<"0">> \o SP \o <<"0">> \o SP \o <<"2">> \o SP \o <<"1", "1">>

HandWrittenFiles == {F_skip, F_unknown, F_unterminated}
FilesLines == {I_load, I_save, I_saveRoot, I_chpen, I_quit}

InitFiles ==
  /\ InitSession
  /\ phase = "untracked"
  /\ \E content \in HandWrittenFiles : fs = [name \in FileNames |-> content]

NextFiles ==
  \/ \E l \in FilesLines : Command(l, MaxHistFiles)
  \/ EndOfInput
  \/ NewSession

SpecFiles == InitFiles /\ [][NextFiles]_vars

\* the step just taken was a load of the default file, which could be opened
LoadsFile == Turn /\ buf' = I_load /\ CanOpenRead(fs, default_history_file)

-----------------------------------------------------------------------------
(* C11 *)

\* the lines of the file up to the first one that ends the load with an error
LinesRead(lines) == IF HasAbort(lines) THEN Take(lines, FirstAbort(lines) - 1) ELSE lines

\* C11: a load passes over every line of the file whose first token is not
\* line, rect, circle or chpen: History, canvas and pen come out as if only
\* the recognized lines had been in the file, the lines after a skipped one
\* are still processed, and the session goes on.
C11_LoadSkipsOtherLines ==
  [][(LoadsFile /\ \E k \in 1 .. Len(FileLines(fs[default_history_file])) :
                       ~Recognized(FileLines(fs[default_history_file])[k]))
       => LET kept == SelectSeq(LinesRead(FileLines(fs[default_history_file])), Recognized)
              st0 == [canvas |-> BlankCanvas, pen |-> pen, his |-> his, fs |-> fs]
          IN /\ running'
             /\ his' = his \o kept
             /\ canvas' = ApplyAll(kept, st0).canvas
             /\ pen' = ApplyAll(kept, st0).pen
             /\ fs' = fs]_vars

\* a load of F_skip has logged its line and its chpen and nothing else
C11_Witness ==
  /\ running /\ buf = I_load /\ r = "LOAD"
  /\ fs[default_history_file] = F_skip
  /\ his = <<InitialPenCommand, I_line, I_chpen>>
  /\ pen = "#" /\ canvas # BlankCanvas

-----------------------------------------------------------------------------
(* C12 *)

\* C12: during a load, a line is appended to History only if the interpreter
\* answered it with LINE, RECT, CIRCLE or CHPEN.
C12_LoadAppendsOnlyAccepted ==
  [][(LoadsFile /\ IsPrefix(his, his'))
       => \A k \in Len(his) + 1 .. Len(his') :
            interpret_command(his'[k], Cur).res \in MutatingResults]_vars

-----------------------------------------------------------------------------
(* C13 *)

\* C13: save writes the History entries in order, one entry per line of the
\* file, each with its text, and leaves History, canvas and pen as they were.
C13_SaveWritesHistory ==
  [][(Turn /\ buf' = I_save)
       => /\ r' = "SAVE"
          /\ FileLines(fs'[default_history_file]) = his
          /\ his' = his /\ canvas' = canvas /\ pen' = pen]_vars

-----------------------------------------------------------------------------
(* C14 *)

\* C14: a save whose file cannot be opened is answered with ERRFILE and
\* leaves History and the files alone.
C14_FailedSaveIsError ==
  [][(Turn /\ buf' = I_saveRoot)
       => /\ r' = "ERRFILE" /\ his' = his /\ fs' = fs]_vars

-----------------------------------------------------------------------------
(* Sessions of lines the interpreter rejects or could reject *)

\* longest History of these sessions
MaxHistParse == 2

I_lack == W_line \o SP \o <<"1">> \o SP \o <<"2">> \o NL
I_empty == NL
I_lineExtra == W_line \o SP \o <<"0">> \o SP \o <<"0">> \o SP \o <<"1">> \o SP \o <<"1">>
               \o SP \o <<"9">> \o NL
I_rectExtra == W_rect \o SP \o <<"0">> \o SP \o <<"0">> \o SP \o <<"2">> \o SP \o <<"2">>
               \o SP \o <<"9">> \o NL
I_circleExtra == W_circle \o SP \o <<"1">> \o SP \o <<"1">> \o SP \o <<"1">> \o SP \o <<"9">> \o NL
I_undoExtra == W_undo \o SP \o <<"x">> \o NL
I_quitExtra == W_quit \o SP \o <<"x">> \o NL
I_loadExtra == W_load \o SP \o <<"f">> \o SP \o <<"g">> \o NL

\* a recognized verb followed by one token more than it takes
ExtraTokenLines ==
  {I_lineExtra, I_rectExtra, I_circleExtra, I_undoExtra, I_quitExtra, I_chpenExtra, I_loadExtra}

ParseLines ==
  ExtraTokenLines \cup {I_chpen, I_undo, I_load, I_nonint, I_lack, I_garbage, I_empty}

InitParse ==
  /\ InitSession
  /\ phase = "untracked"
  /\ \E content \in InitialFiles : fs = [name \in FileNames |-> content]

NextParse ==
  \/ \E l \in ParseLines : Command(l, MaxHistParse)
  \/ EndOfInput
  \/ NewSession

SpecParse == InitParse /\ [][NextParse]_vars

\* the step just taken was one turn of the main loop, the last one included
CommandStep == running /\ (running' \/ r' = "EXIT")

RejectedResults == {"UNKNOWN", "ERRLACKARGS", "ERRNONINT"}

-----------------------------------------------------------------------------
(* C15 *)

\* C15 (as stated): a live input line answered with UNKNOWN, ERRLACKARGS or
\* ERRNONINT changes neither canvas, pen nor History.
C15_RejectedLineChangesNothing ==
  [][(CommandStep /\ r' \in RejectedResults)
       => /\ canvas' = canvas /\ pen' = pen /\ his' = his]_vars

\* C15 (as amended): a live input line other than a load that is answered
\* with UNKNOWN, ERRLACKARGS or ERRNONINT changes neither canvas, pen,
\* History nor the files.
C15_RejectedNonLoadChangesNothing ==
  [][(CommandStep /\ r' \in RejectedResults /\ Tok(strtok(StripLast(buf')), 1) # W_load)
       => /\ canvas' = canvas /\ pen' = pen /\ his' = his /\ fs' = fs]_vars

\* line 1 2 3abc 4 was rejected in a session that holds a drawing
C15_Witness ==
  /\ running /\ buf = I_nonint /\ r = "ERRNONINT"
  /\ Len(his) = 2 /\ canvas # BlankCanvas

-----------------------------------------------------------------------------
(* C16 *)

\* C16: a recognized verb followed by extra trailing tokens is answered with
\* UNKNOWN and has no effect, whatever the verb.
C16_ExtraTokensRejected ==
  [][(CommandStep /\ buf' \in ExtraTokenLines)
       => /\ r' = "UNKNOWN"
          /\ canvas' = canvas /\ pen' = pen /\ his' = his /\ fs' = fs]_vars

-----------------------------------------------------------------------------
(* C17 *)

\* the first token of the input line of the step just taken
Verb == Tok(strtok(StripLast(buf')), 1)

\* C17: logging rule: a live command puts exactly one entry, its raw text, at
\* the end of History if and only if its Result is LINE, RECT, CIRCLE or
\* CHPEN.  undo, save, load, quit and rejected lines are not logged: save,
\* quit and rejected lines leave History as it is, a load adds lines of the
\* file only, and undo, whose replay appends nothing, drops the last entry.
C17_LoggingRule ==
  [][CommandStep
       => /\ (r' \in MutatingResults) <=> (his' = Append(his, buf'))
          /\ (r' \notin MutatingResults) =>
               \/ his' = his
               \/ /\ Verb = W_load
                  /\ IsPrefix(his, his')
                  /\ \A k \in Len(his) + 1 .. Len(his') :
                       \E j \in 1 .. Len(FileLines(fs[default_history_file])) :
                         his'[k] = FileLines(fs[default_history_file])[j]
               \/ /\ Verb = W_undo
                  /\ r' = "UNDO"
                  /\ his' = Front(his)]_vars

\* a circle was accepted and stands alone at the end of History
C17_Witness ==
  /\ running /\ buf = I_circle /\ r = "CIRCLE"
  /\ Len(his) = 2 /\ his[2] = I_circle /\ his[1] # I_circle

-----------------------------------------------------------------------------
(* Sessions of one drawing command, typed with arguments in and around the  *)
(* canvas                                                                    *)

\* the decimal text of an integer, as the user types it
RECURSIVE ItoA(_)
ItoA(n) ==
  IF n < 0 THEN <<"-">> \o ItoA(0 - n)
  ELSE IF n < 10 THEN <<CHOOSE ch \in Digits : DigitVal(ch) = n>>
  ELSE ItoA(n \div 10) \o <<CHOOSE ch \in Digits : DigitVal(ch) = n % 10>>

\* coordinates from one cell before the canvas to one cell after it
Xs == -1 .. Width
Ys == -1 .. Height
LineArgs == Xs \X Ys \X Xs \X Ys
RectArgs == Xs \X Ys \X (-1 .. Width + 1) \X (-1 .. Height + 1)
CircleArgs == Xs \X Ys \X (-1 .. 2)

LineText(a) ==
  W_line \o SP \o ItoA(a[1]) \o SP \o ItoA(a[2]) \o SP \o ItoA(a[3]) \o SP \o ItoA(a[4]) \o NL
RectText(a) ==
  W_rect \o SP \o ItoA(a[1]) \o SP \o ItoA(a[2]) \o SP \o ItoA(a[3]) \o SP \o ItoA(a[4]) \o NL
CircleText(a) ==
  W_circle \o SP \o ItoA(a[1]) \o SP \o ItoA(a[2]) \o SP \o ItoA(a[3]) \o NL

DrawLines ==
  {LineText(a) : a \in LineArgs} \cup {RectText(a) : a \in RectArgs}
    \cup {CircleText(a) : a \in CircleArgs}

\* the first turn of the main loop of a session
FirstCommand(l) == r = "NONE" /\ Command(l, MaxHist)

InitDraw ==
  /\ InitSession
  /\ phase = "untracked"
  /\ fs = [name \in FileNames |-> NoFile]

NextDraw ==
  \/ \E l \in DrawLines : FirstCommand(l)
  \/ EndOfInput
  \/ NewSession

SpecDraw == InitDraw /\ [][NextDraw]_vars

(* Vocabulary of the drawing properties *)

\* a canvas that holds a foreign glyph in every cell
Background == [x \in 0 .. Width - 1 |-> [y \in 0 .. Height - 1 |-> "#"]]

\* the canvas c with the glyph p in the cells of the set and c elsewhere
Painted(c, cells, p) ==
  [x \in 0 .. Width - 1 |-> [y \in 0 .. Height - 1 |->
     IF <<x, y>> \in cells THEN p ELSE c[x][y]]]

CanvasCells == (0 .. Width - 1) \X (0 .. Height - 1)

\* a / n for n > 0, truncated toward zero
Quot(a, n) == IF a >= 0 THEN a \div n ELSE 0 - ((0 - a) \div n)

\* the points of the segment from (x0, y0) to (x1, y1)
LinePoints(x0, y0, x1, y1) ==
  LET n == IF abs(x1 - x0) > abs(y1 - y0) THEN abs(x1 - x0) ELSE abs(y1 - y0)
  IN {<<x0, y0>>} \cup
     {<<x0 + Quot(i * (x1 - x0), n), y0 + Quot(i * (y1 - y0), n)>> : i \in 1 .. n}

\* the cells on the four edges of the rectangle with corners (x0, y0), (x1, y1)
Outline(x0, y0, x1, y1) ==
  {c \in (x0 .. x1) \X (y0 .. y1) : c[1] \in {x0, x1} \/ c[2] \in {y0, y1}}

-----------------------------------------------------------------------------
(* C18 *)

\* C18: for every line command with both endpoints on the canvas the cells
\* written are exactly (x0,y0) and the points (x0 + i*(x1-x0)/n,
\* y0 + i*(y1-y0)/n) for 1 <= i <= n, n = max(|x1-x0|, |y1-y0|), the division
\* truncated toward zero; both endpoints are among them; for n = 0 it is the
\* single point; every other cell keeps what it held.
C18_LineCells ==
  \A a \in LineArgs :
    (r = "LINE" /\ buf = LineText(a) /\ InBounds(a[1], a[2]) /\ InBounds(a[3], a[4]))
      => LET cells == LinePoints(a[1], a[2], a[3], a[4])
         IN /\ canvas = Painted(BlankCanvas, cells, pen)
            /\ draw_line(Background, pen, a[1], a[2], a[3], a[4])
                 = Painted(Background, cells, pen)
            /\ canvas[a[1]][a[2]] = pen /\ canvas[a[3]][a[4]] = pen
            /\ (a[1] = a[3] /\ a[2] = a[4]) => cells = {<<a[1], a[2]>>}

\* line 2 1 0 0 was drawn: its middle point is (1,1), -1/2 being 0
C18_Witness ==
  /\ r = "LINE" /\ buf = LineText(<<2, 1, 0, 0>>)
  /\ canvas[2][1] = "*" /\ canvas[1][1] = "*" /\ canvas[0][0] = "*" /\ canvas[1][0] = " "

-----------------------------------------------------------------------------
(* C19 *)

\* C19: rect x0 y0 w h with w > 0 and h > 0 writes exactly the cells of the
\* canvas that lie on the four edges of the rectangle with corners (x0,y0)
\* and (x0+w-1, y0+h-1), no cell inside it and no cell outside it; with
\* w <= 0 or h <= 0 no cell changes.
C19_RectCells ==
  \A a \in RectArgs :
    (r = "RECT" /\ buf = RectText(a))
      => LET cells == IF a[3] > 0 /\ a[4] > 0
                      THEN Outline(a[1], a[2], a[1] + a[3] - 1, a[2] + a[4] - 1)
                             \cap CanvasCells
                      ELSE {}
         IN /\ canvas = Painted(BlankCanvas, cells, pen)
            /\ draw_rect(Background, pen, a[1], a[2], a[3], a[4])
                 = Painted(Background, cells, pen)

\* rect 0 -1 3 3 was drawn: three edges cross the canvas, (1,0) lies inside
C19_Witness ==
  /\ r = "RECT" /\ buf = RectText(<<0, -1, 3, 3>>)
  /\ canvas[0][0] = "*" /\ canvas[2][0] = "*" /\ canvas[1][1] = "*" /\ canvas[1][0] = " "

-----------------------------------------------------------------------------
(* C20 *)

\* the points of the primitive that the drawing command buf names
Points ==
  UNION ({LinePoints(a[1], a[2], a[3], a[4]) : a \in {b \in LineArgs : buf = LineText(b)}}
    \cup {IF a[3] > 0 /\ a[4] > 0
          THEN LET x1 == a[1] + a[3] - 1
                   y1 == a[2] + a[4] - 1
               IN LinePoints(a[1], a[2], x1, a[2]) \cup LinePoints(a[1], y1, x1, y1)
                    \cup LinePoints(a[1], a[2], a[1], y1) \cup LinePoints(x1, a[2], x1, y1)
          ELSE {} : a \in {b \in RectArgs : buf = RectText(b)}}
    \cup {IF a[3] > 0
          THEN {<<a[1] + d[1], a[2] + d[2]>> : d \in CircleSamples(a[3])}
          ELSE {} : a \in {b \in CircleArgs : buf = CircleText(b)}})

-----------------------------------------------------------------------------
(* The bounded-history variant, paint_arrayhistory.c.  Its History is the   *)
(* record of hsize and of the array commands[0 .. max_history - 1]; its     *)
(* canvas, draw_line and reset_canvas have the text of paint.c.             *)

\* const int max_history = 5;
max_history == 5

\* what a slot of commands holds before the first strcpy into it
Uninit == <<"uninit">>

\* History his = {.max_history, .bufsize, .hsize = 0} and the two malloc
arr_init_history == [hsize |-> 0, commands |-> [i \in 0 .. max_history - 1 |-> Uninit]]

\* strcpy(his.commands[his.hsize], buf); his.hsize++;
arr_store(h, str) ==
  [hsize |-> h.hsize + 1, commands |-> [h.commands EXCEPT ![h.hsize] = str]]

RECURSIVE arr_write(_, _, _)
\* for (i = 0; i < his->hsize; i++) fprintf(fp, "%s", his->commands[i])
arr_write(h, i, acc) ==
  IF i >= h.hsize THEN acc ELSE arr_write(h, i + 1, acc \o h.commands[i])

arr_save_history(filename, st) ==
  LET name == IF filename = NULL THEN default_history_file ELSE filename
  IN IF ~CanOpenWrite(st.fs, name) THEN st
     ELSE [st EXCEPT !.fs = [st.fs EXCEPT ![name] = arr_write(st.his, 0, <<>>)]]

RECURSIVE arr_interpret_command(_, _)
RECURSIVE arr_replay(_, _)

\* mutant: hsize is decremented without the test hsize != 0
arr_undo_noEmptyTest(st) ==
  LET st0 == [st EXCEPT !.canvas = reset_canvas(st.canvas)]
  IN Res("UNDO", [arr_replay(st0, 0) EXCEPT !.his.hsize = st.his.hsize - 1])

\* for (i = 0; i < his->hsize - 1; i++) interpret_command(his->commands[i], ..)
\* (called with hsize != 0 only, so the unsigned hsize - 1 does not wrap)
arr_replay(st, i) ==
  IF i >= st.his.hsize - 1 THEN st
  ELSE arr_replay(arr_interpret_command(st.his.commands[i], st).st, i + 1)

arr_undo(st) ==
  LET st0 == [st EXCEPT !.canvas = reset_canvas(st.canvas)]
  IN IF st.his.hsize # 0
     THEN Res("UNDO", [arr_replay(st0, 0) EXCEPT !.his.hsize = st.his.hsize - 1])
     ELSE Res("UNDO", st0)

arr_interpret_command(command, st) ==
  LET toks == strtok(StripLast(command))
      s == Tok(toks, 1)
      b == SubSeq(toks, 2, 5)
  IN IF s = NULL THEN Res("UNKNOWN", st)
     ELSE IF s = W_line THEN
       IF Len(toks) < 5 THEN Res("ERRLACKARGS", st)
       ELSE IF ~AllInts(b) THEN Res("ERRNONINT", st)
       ELSE Res("LINE", [st EXCEPT !.canvas =
              draw_line(st.canvas, st.pen, IntArg(b, 1), IntArg(b, 2),
                        IntArg(b, 3), IntArg(b, 4))])
     ELSE IF s = W_save THEN Res("SAVE", arr_save_history(Tok(toks, 2), st))
     ELSE IF s = W_undo THEN arr_undo(st)
     ELSE IF s = W_quit THEN Res("EXIT", st)
     ELSE Res("UNKNOWN", st)

\* a second line command, the single cell (0,1)
I_dot == W_line \o SP \o <<"0">> \o SP \o <<"1">> \o SP \o <<"0">> \o SP \o <<"1">> \o NL

ArrLines == {I_line, I_dot, I_undo, I_save, I_quit, I_nonint}

\* main up to the first prompt; buf and r are not yet assigned
ArrStartSession ==
  /\ canvas' = BlankCanvas
  /\ pen' = "*"
  /\ buf' = Uninit
  /\ his' = arr_init_history
  /\ r' = "NONE"
  /\ running' = TRUE

InitArray ==
  /\ canvas = BlankCanvas
  /\ pen = "*"
  /\ buf = Uninit
  /\ his = arr_init_history
  /\ r = "NONE"
  /\ running = TRUE
  /\ phase = "untracked"
  /\ savedGrid = <<>>
  /\ fs = [name \in FileNames |-> NoFile]

\* mutant: the loop goes on while hsize <= max_history
ArrCommand_oneMore(l) ==
  /\ running
  /\ his.hsize <= max_history
  /\ LET ir == arr_interpret_command(l, Cur)
     IN /\ buf' = l
        /\ r' = ir.res
        /\ canvas' = ir.st.canvas
        /\ pen' = ir.st.pen
        /\ fs' = ir.st.fs
        /\ his' = IF ir.res = "LINE" THEN arr_store(ir.st.his, l) ELSE ir.st.his
        /\ running' = (ir.res # "EXIT")
        /\ UNCHANGED <<phase, savedGrid>>

\* one iteration of while (his.hsize < his.max_history) on the input line l
ArrCommand(l) ==
  /\ running
  /\ his.hsize < max_history
  /\ LET ir == arr_interpret_command(l, Cur)
     IN /\ buf' = l
        /\ r' = ir.res
        /\ canvas' = ir.st.canvas
        /\ pen' = ir.st.pen
        /\ fs' = ir.st.fs
        /\ his' = IF ir.res = "LINE" THEN arr_store(ir.st.his, l) ELSE ir.st.his
        /\ running' = (ir.res # "EXIT")
        /\ UNCHANGED <<phase, savedGrid>>

\* fgets returns NULL
ArrEndOfInput ==
  /\ running
  /\ his.hsize < max_history
  /\ running' = FALSE
  /\ UNCHANGED <<canvas, pen, his, fs, buf, r, phase, savedGrid>>

\* the loop condition is false: the History is full
ArrLoopExit ==
  /\ running
  /\ ~(his.hsize < max_history)
  /\ running' = FALSE
  /\ UNCHANGED <<canvas, pen, his, fs, buf, r, phase, savedGrid>>

\* the program is started again in the same directory with the same size
ArrNewSession ==
  /\ ~running
  /\ ArrStartSession
  /\ UNCHANGED <<fs, phase, savedGrid>>

NextArray ==
  \/ \E l \in ArrLines : ArrCommand(l)
  \/ ArrEndOfInput
  \/ ArrLoopExit
  \/ ArrNewSession

SpecArray == InitArray /\ [][NextArray]_vars

-----------------------------------------------------------------------------
(* C21 *)

\* C21: in the bounded-history variant the stored count never exceeds
\* max_history; a store happens only while the count is below max_history
\* and fills the slot whose index is the count; once the count has reached
\* max_history the loop ends without reading or accepting another command.
C21_BoundedHistory ==
  [][/\ his'.hsize <= max_history
     /\ (running /\ his'.commands # his.commands)
          => /\ his.hsize < max_history
             /\ his.hsize \in DOMAIN his.commands
             /\ his'.commands = [his.commands EXCEPT ![his.hsize] = buf']
             /\ his'.hsize = his.hsize + 1
     /\ (running /\ his.hsize = max_history)
          => /\ ~running'
             /\ UNCHANGED <<canvas, pen, his, fs, buf, r>>]_vars

\* the fifth line was stored and the loop has ended
C21_Witness ==
  /\ ~running /\ r = "LINE" /\ his.hsize = max_history
  /\ \A i \in 0 .. max_history - 1 : his.commands[i] \in {I_line, I_dot}

-----------------------------------------------------------------------------
(* C30 *)

\* the cells that the stored line command e draws
ArrCells(e) ==
  UNION {LinePoints(a[1], a[2], a[3], a[4]) :
           a \in {b \in {<<0, 0, 2, 1>>, <<0, 1, 0, 1>>} : LineText(b) = e}}

\* C30: in the bounded-history variant an undo with hsize = 0 leaves hsize at
\* 0 and the canvas blank; an undo with hsize = k > 0 leaves on the canvas
\* exactly the entries 0 .. k-2 and sets hsize to k-1; the entries themselves
\* are not touched, and 0 <= hsize <= max_history holds throughout.
C30_ArrayUndo ==
  [][/\ his'.hsize >= 0 /\ his'.hsize <= max_history
     /\ (Turn /\ buf' = I_undo)
          => /\ r' = "UNDO"
             /\ his'.commands = his.commands
             /\ his'.hsize = IF his.hsize = 0 THEN 0 ELSE his.hsize - 1
             /\ canvas' = Painted(BlankCanvas,
                            UNION {ArrCells(his.commands[i]) : i \in 0 .. his.hsize - 2}
                              \cap CanvasCells, pen)]_vars

\* an undo took the second of two stored lines away and replayed the first
C30_Witness ==
  /\ running /\ buf = I_undo /\ r = "UNDO"
  /\ his.hsize = 1 /\ his.commands[1] # Uninit /\ canvas # BlankCanvas

-----------------------------------------------------------------------------
(* Sessions whose lines draw every Result of paint.c but SAVE *)

LoopLines == {I_line, I_chpen, I_undo, I_load, I_quit, I_nonint, I_lack, I_garbage}

InitLoop ==
  /\ InitSession
  /\ phase = "untracked"
  /\ \E content \in InitialFiles \cup {F_unterminated} :
       fs = [name \in FileNames |-> content]

NextLoop ==
  \/ \E l \in LoopLines : Command(l, MaxHist)
  \/ EndOfInput
  \/ NewSession

SpecLoop == InitLoop /\ [][NextLoop]_vars

-----------------------------------------------------------------------------
(* C22 *)

\* C22: the main loop of paint.c ends only when the input ends or when a
\* command is answered with EXIT, which only quit is, and quit changes
\* nothing; after every other Result the loop is back at reading a command;
\* once the loop has ended no command is processed any more, the next thing
\* that happens being a fresh start of the program.
C22_LoopEndsOnQuitOrEof ==
  [][/\ (running /\ ~running')
          => /\ UNCHANGED <<canvas, pen, his, fs>>
             /\ \/ r' = "EXIT" /\ Verb = W_quit
                \/ UNCHANGED <<buf, r>>
     /\ (running /\ r' # "EXIT" /\ ~UNCHANGED <<canvas, pen, his, fs, buf, r>>)
          => running'
     /\ (running /\ r' = "EXIT") => ~running'
     /\ (~running)
          => /\ running' /\ r' = "NONE" /\ fs' = fs
             /\ canvas' = BlankCanvas /\ his' = <<InitialPenCommand>>]_vars

\* a load that found no file was answered with ERRFILE and the session, which
\* holds a drawing, goes on
C22_Witness ==
  /\ running /\ r = "ERRFILE" /\ buf = I_load /\ canvas # BlankCanvas

-----------------------------------------------------------------------------
(* Sessions that draw with two glyphs and undo *)

\* longest History of these sessions
MaxHistPen == 4

PenLines == {I_line, I_rect, I_circle, I_chpen, I_undo}

InitPen ==
  /\ InitSession
  /\ phase = "untracked"
  /\ fs = [name \in FileNames |-> NoFile]

NextPen ==
  \/ \E l \in PenLines : Command(l, MaxHistPen)
  \/ EndOfInput
  \/ NewSession

SpecPen == InitPen /\ [][NextPen]_vars

\* the points of the primitives that the drawing lines of these sessions name
DrawnCells(l) ==
  IF l = I_line THEN LinePoints(0, 0, 2, 1)
  ELSE IF l = I_rect THEN Outline(0, 0, 1, 1)
  ELSE IF l = I_circle THEN {<<1 + d[1], 1 + d[2]>> : d \in CircleSamples(1)}
  ELSE {}

-----------------------------------------------------------------------------
(* C23 *)

\* C23: a draw command writes the glyph that is the pen when it executes and
\* leaves the pen alone: the cells of its primitive hold the pen afterwards
\* and every other cell keeps its glyph; an accepted chpen g makes g the pen
\* and changes no cell, so cells drawn before keep their glyph.
C23_DrawsWithCurrentPen ==
  [][/\ (Turn /\ r' \in {"LINE", "RECT", "CIRCLE"})
          => /\ pen' = pen
             /\ canvas' = Painted(canvas, DrawnCells(buf') \cap CanvasCells, pen)
     /\ (Turn /\ r' = "CHPEN")
          => /\ pen' = buf'[Len(W_chpen) + 2]
             /\ canvas' = canvas]_vars

\* a line drawn with # after chpen # lies over a circle drawn with *
C23_Witness ==
  /\ running /\ r = "LINE" /\ pen = "#"
  /\ his = <<InitialPenCommand, I_circle, I_chpen, I_line>>
  /\ canvas[0][0] = "#" /\ canvas[1][0] = "#" /\ canvas[1][1] = "*"

-----------------------------------------------------------------------------
(* C28 *)

RECURSIVE LastChpenGlyph(_)
\* the glyph named by the last chpen entry of h, '*' if h holds none
LastChpenGlyph(h) ==
  IF h = <<>> THEN "*"
  ELSE IF Tok(strtok(StripLast(h[Len(h)])), 1) = W_chpen
       THEN Tok(strtok(StripLast(h[Len(h)])), 2)[1]
       ELSE LastChpenGlyph(Front(h))

\* C28: in every reachable state the pen is the glyph of the last chpen entry
\* that History holds, and '*' when History holds no chpen entry.
C28_PenIsLastChpen == pen = LastChpenGlyph(his)

-----------------------------------------------------------------------------
(* Sessions of lines with too few, malformed or void arguments *)

\* longest History of these sessions
MaxHistArgs == 3

I_lackNonint == W_line \o SP \o <<"1">> \o SP \o <<"x">> \o NL
I_rectLackNonint == W_rect \o SP \o <<"0">> \o SP \o <<"0">> \o SP \o <<"x">> \o NL
I_rectNonint == W_rect \o SP \o <<"0">> \o SP \o <<"0">> \o SP \o <<"2">> \o SP \o <<"2", "x">> \o NL
I_circleLackNonint == W_circle \o SP \o <<"a">> \o SP \o <<"1">> \o NL
I_circleNonint == W_circle \o SP \o <<"1">> \o SP \o <<"1">> \o SP \o <<"1", "x">> \o NL
I_linePlus == W_line \o SP \o <<"0">> \o SP \o <<"0">> \o SP \o <<"+", "1">> \o SP \o <<"1">> \o NL
I_chpenBare == W_chpen \o NL
I_chpenLong == W_chpen \o SP \o <<"a", "b">> \o NL
I_circleNoop == W_circle \o SP \o <<"1">> \o SP \o <<"1">> \o SP \o <<"0">> \o NL
I_rectNoop == W_rect \o SP \o <<"0">> \o SP \o <<"0">> \o SP \o <<"0">> \o SP \o <<"2">> \o NL

\* circle with r <= 0, rect with w <= 0
NoopLines == {I_circleNoop, I_rectNoop}

ArgsLines ==
  NoopLines \cup
  {I_lack, I_lackNonint, I_nonint, I_rectLackNonint, I_rectNonint, I_circleLackNonint,
   I_circleNonint, I_linePlus, I_chpenBare, I_chpenLong, I_chpenExtra, I_chpen,
   I_circle, I_undo}

InitArgs ==
  /\ InitSession
  /\ phase = "untracked"
  /\ fs = [name \in FileNames |-> NoFile]

NextArgs ==
  \/ \E l \in ArgsLines : Command(l, MaxHistArgs)
  \/ EndOfInput
  \/ NewSession

SpecArgs == InitArgs /\ [][NextArgs]_vars

\* the tokens of the input line of the step just taken
Toks == strtok(StripLast(buf'))

-----------------------------------------------------------------------------
(* C24 *)

\* the number of argument tokens that the verb v takes
Need(v) == IF v = W_circle THEN 3 ELSE 4

\* an optional sign followed by digits and nothing else
IsDecimal(t) ==
  LET d == IF t[1] \in {"-", "+"} THEN Tail(t) ELSE t
  IN d # <<>> /\ \A i \in 1 .. Len(d) : d[i] \in Digits

\* C24: for line, rect and circle the tokens are counted before they are
\* tested: the answer is ERRLACKARGS exactly when fewer argument tokens than
\* the verb takes are present, whether or not they are integers, and
\* ERRNONINT exactly when all are present and one of them is not a decimal
\* integer in full.
C24_CountBeforeIntegers ==
  [][(Turn /\ Verb \in {W_line, W_rect, W_circle})
       => /\ (r' = "ERRLACKARGS") <=> (Len(Toks) - 1 < Need(Verb))
          /\ (r' = "ERRNONINT")
               <=> /\ Len(Toks) - 1 >= Need(Verb)
                   /\ \E i \in 2 .. Need(Verb) + 1 : ~IsDecimal(Toks[i])]_vars

\* line 1 x, too short and with a token that is no integer, was answered with
\* ERRLACKARGS
C24_Witness == running /\ buf = I_lackNonint /\ r = "ERRLACKARGS"

-----------------------------------------------------------------------------
(* C25 *)

-----------------------------------------------------------------------------
(* C26 *)

\* C26: a circle with r <= 0 and a rect with w <= 0 or h <= 0 change no cell,
\* are answered with CIRCLE and RECT and are logged, and an undo that follows
\* takes the entry from History again and leaves the grid as it was before
\* the command.
C26_NoopThenUndo ==
  [][(Turn /\ buf' \in NoopLines)
       => /\ r' = (IF buf' = I_circleNoop THEN "CIRCLE" ELSE "RECT")
          /\ canvas' = canvas
          /\ his' = Append(his, buf')
          /\ interpret_command(I_undo, Post).st.his = his
          /\ interpret_command(I_undo, Post).st.canvas = canvas]_vars

-----------------------------------------------------------------------------
(* C27 *)

\* C27: whenever History is empty every cell of the canvas is blank, so the
\* reset_canvas that undo does before its test for an empty History erases
\* nothing.
C27_EmptyHistoryBlankCanvas == (his = <<>>) => (canvas = BlankCanvas)

\* an undo has taken the last entry out of History
C27_Witness == running /\ his = <<>> /\ r = "UNDO" /\ buf = I_undo

-----------------------------------------------------------------------------
(* C29 *)

\* C29 (as stated): on a blank canvas, line x0 y0 x1 y1 and line x1 y1 x0 y0
\* with endpoints on the canvas write the same set of cells.
C29_LineSymmetric ==
  \A a \in LineArgs :
    (r = "LINE" /\ buf = LineText(a) /\ InBounds(a[1], a[2]) /\ InBounds(a[3], a[4]))
      => canvas = draw_line(BlankCanvas, pen, a[3], a[4], a[1], a[2])

\* C29 (as amended): the two lines write the same set of cells when the
\* segment is horizontal, vertical or diagonal, and in every case both write
\* both endpoints and as many cells as each other.
C29_LineSymmetricOnAxesAndDiagonals ==
  \A a \in LineArgs :
    (r = "LINE" /\ buf = LineText(a) /\ InBounds(a[1], a[2]) /\ InBounds(a[3], a[4]))
      => LET back == draw_line(BlankCanvas, pen, a[3], a[4], a[1], a[2])
             Count(c) == Cardinality({q \in CanvasCells : c[q[1]][q[2]] = pen})
         IN /\ (a[1] = a[3] \/ a[2] = a[4] \/ abs(a[3] - a[1]) = abs(a[4] - a[2]))
                 => canvas = back
            /\ canvas[a[1]][a[2]] = pen /\ canvas[a[3]][a[4]] = pen
            /\ back[a[1]][a[2]] = pen /\ back[a[3]][a[4]] = pen
            /\ Count(canvas) = Count(back)

\* line 0 0 2 1 was drawn: it passes through (1,0), where line 2 1 0 0 passes
\* through (1,1)
C29_Witness ==
  /\ r = "LINE" /\ buf = LineText(<<0, 0, 2, 1>>)
  /\ canvas[1][0] = "*" /\ canvas[1][1] = " "
  /\ draw_line(BlankCanvas, pen, 2, 1, 0, 0)[1][1] = "*"

====
